---- MODULE Spec2Model ----
(***************************************************************************)
(* NumberConverter (convertNumbers.py): the binary / hexadecimal encoders  *)
(* of signed integers, their add-one-with-carry helpers, the line loader   *)
(* and the report formatter.                                               *)
(*                                                                         *)
(* Strings are sequences of one-character strings.  A Python int is        *)
(* unbounded, so it is kept as sign and magnitude, the magnitude in two    *)
(* limbs: |n| = hi * Limb + lo with 0 <= lo < Limb.  Zero is never         *)
(* negative.                                                               *)
(***************************************************************************)
EXTENDS Integers, Sequences, FiniteSets, TLC

VARIABLES
    op,           \* what runs: one call of an encoder or helper, or the script
    pc,           \* where it stands
    number,       \* the integer passed to an encoder
    bits,         \* the width passed to convert_to_binary
    arg,          \* the digit string passed to an add-one helper
    out,          \* the string the call returned
    exists,       \* os.path.isfile(self.file_path)
    file,         \* the lines of the file, each with its line end
    idx,          \* the lines read so far
    data,         \* self.data
    line_errors,  \* self.line_errors
    printed,      \* the lines display_conversion printed
    written       \* the lines generate_file wrote

callVars == <<number, bits, arg, out>>
mainVars == <<exists, file, idx, data, line_errors, printed, written>>
vars == <<op, pc, number, bits, arg, out,
          exists, file, idx, data, line_errors, printed, written>>

-----------------------------------------------------------------------------
(* Bounds of the model *)

\* magnitudes 0..MaxMag are all passed to both encoders
MaxMag == 130
\* magnitudes 2^k - 1, 2^k, 2^k + 1 are passed to convert_to_hex for every
\* k <= MaxExp
MaxExp == 41
\* and to convert_to_binary for every k <= MaxBinExp
MaxBinExp == 13
\* widths 1..MaxBits are passed to convert_to_binary
MaxBits == 11
\* digit strings of length 0..MaxBinLen are passed to __binary_add_one
MaxBinLen == 7
\* digit strings of length 0..MaxHexLen are passed to __add_one_to_hex
MaxHexLen == 3
\* files of 0..MaxLines lines are loaded
MaxLines == 2

-----------------------------------------------------------------------------
(* Python integers *)

Limb == 2^20

PyInt(neg, hi, lo) == [neg |-> neg, hi |-> hi, lo |-> lo]

Zero == PyInt(FALSE, 0, 0)

\* number == 0, n > 0 (for n >= 0 the loop guard n > 0 is n != 0)
IsZero(n) == n.hi = 0 /\ n.lo = 0

\* number < 0
IsNegative(n) == n.neg

\* abs(number)
Abs(n) == PyInt(FALSE, n.hi, n.lo)

\* n % d for n >= 0 and a small d > 0
Mod(n, d) == ((n.hi % d) * Limb + n.lo) % d

\* n // d for n >= 0 and a small d > 0
FloorDiv(n, d) ==
    PyInt(FALSE, n.hi \div d, ((n.hi % d) * Limb + n.lo) \div d)

\* n * b + d for n >= 0, a small base b and a digit d
MulAdd(n, b, d) ==
    LET t == n.lo * b + d
    IN  PyInt(FALSE, n.hi * b + (t \div Limb), t % Limb)

-----------------------------------------------------------------------------
(* Python string methods *)

Max(a, b) == IF a >= b THEN a ELSE b

Fill(c, k) == [i \in 1..Max(k, 0) |-> c]

\* s.rjust(width, fillchar): never shortens s
rjust(s, width, fillchar) == Fill(fillchar, width - Len(s)) \o s

\* s.zfill(width) on a string of digits (no sign prefix): never shortens s
zfill(s, width) == rjust(s, width, "0")

\* s[::-1]
Reverse(s) == [i \in 1..Len(s) |-> s[Len(s) + 1 - i]]

\* s[-k:]; s[-0:] is s[0:], the whole string
LastChars(s, k) ==
    IF k = 0 THEN s ELSE SubSeq(s, Max(1, Len(s) - k + 1), Len(s))

hex_digits ==
    <<"0", "1", "2", "3", "4", "5", "6", "7",
      "8", "9", "A", "B", "C", "D", "E", "F">>

\* hex_digits[k], 0-based
HexDigit(k) == hex_digits[k + 1]

\* hex_digits.index(digit), 0-based
HexIndex(digit) == CHOOSE k \in 0..15 : hex_digits[k + 1] = digit

\* str(d) of a single decimal digit
str(d) == HexDigit(d)

-----------------------------------------------------------------------------
(* The binary encoder *)

\* the while loop of convert_to_binary: remainders, least significant first
RECURSIVE binary_digits(_)
binary_digits(n) ==
    IF IsZero(n) THEN <<>>
    ELSE <<str(Mod(n, 2))>> \o binary_digits(FloorDiv(n, 2))

\* a loop that flips the digit at i and forgets the carry
binary_add_one_loop_nocarry(binary_list, i) ==
    IF i = 0 THEN [list |-> binary_list, carry |-> 1]
    ELSE [list |-> [binary_list EXCEPT
                       ![i] = IF @ = "1" THEN "0" ELSE "1"],
          carry |-> 0]

\* the for loop of __binary_add_one from index i down, entered with carry = 1
RECURSIVE binary_add_one_loop(_, _)
binary_add_one_loop(binary_list, i) ==
    IF i = 0 THEN [list |-> binary_list, carry |-> 1]
    ELSE IF binary_list[i] = "1"
         THEN binary_add_one_loop([binary_list EXCEPT ![i] = "0"], i - 1)
         ELSE [list |-> [binary_list EXCEPT ![i] = "1"], carry |-> 0]

\* an add-one that keeps the carried digit: the final slice is missing
binary_add_one_unsliced(binary) ==
    LET r == binary_add_one_loop(binary, Len(binary))
    IN  IF r.carry = 1 THEN <<"1">> \o r.list ELSE r.list

binary_add_one(binary) ==
    LET length == Len(binary)
        r == binary_add_one_loop(binary, length)
        binary_list == IF r.carry = 1 THEN <<"1">> \o r.list ELSE r.list
    IN  LastChars(binary_list, length)

\* a transform that inverts and adds nothing: the one's complement
twos_complement_inverted_only(binary, width) ==
    zfill([i \in 1..Len(binary) |-> IF binary[i] = "0" THEN "1" ELSE "0"],
          width)

\* a transform that cuts its result down to the last width digits
twos_complement_truncated(binary, width) ==
    LET inverted == [i \in 1..Len(binary) |->
                        IF binary[i] = "0" THEN "1" ELSE "0"]
    IN  LastChars(zfill(binary_add_one(inverted), width), width)

twos_complement(binary, width) ==
    LET inverted == [i \in 1..Len(binary) |->
                        IF binary[i] = "0" THEN "1" ELSE "0"]
        inverted_plus_one == binary_add_one(inverted)
    IN  zfill(inverted_plus_one, width)

\* bits=10
DefaultBits == 10

\* an encoder that pads every number to the width, not only the negative
convert_to_binary_padded(n, width) ==
    IF IsZero(n) THEN <<"0">>
    ELSE LET binary == zfill(Reverse(binary_digits(Abs(n))), width)
         IN  IF IsNegative(n) THEN twos_complement(binary, width) ELSE binary

convert_to_binary(n, width) ==
    IF IsZero(n) THEN <<"0">>
    ELSE LET digits == binary_digits(Abs(n))
         IN  IF IsNegative(n)
             THEN twos_complement(zfill(Reverse(digits), width), width)
             ELSE Reverse(digits)

-----------------------------------------------------------------------------
(* The hexadecimal encoder *)

\* a loop that puts each digit behind: least significant digit first
RECURSIVE hex_of_appended(_, _)
hex_of_appended(n, hex_string) ==
    IF IsZero(n) THEN hex_string
    ELSE hex_of_appended(FloorDiv(n, 16),
                         hex_string \o <<HexDigit(Mod(n, 16))>>)

\* the while loop of convert_to_hex: each digit is put in front
RECURSIVE hex_of(_, _)
hex_of(n, hex_string) ==
    IF IsZero(n) THEN hex_string
    ELSE hex_of(FloorDiv(n, 16), <<HexDigit(Mod(n, 16))>> \o hex_string)

\* the for loop of __add_one_to_hex over reversed(hex_string), from index i
RECURSIVE add_one_to_hex_loop(_, _, _, _)
add_one_to_hex_loop(hex_string, i, result, carry) ==
    IF i = 0 THEN result
    ELSE IF carry = 0
         THEN add_one_to_hex_loop(hex_string, i - 1,
                                  <<hex_string[i]>> \o result, carry)
         ELSE LET index == HexIndex(hex_string[i]) + carry
              IN  IF index >= 16
                  THEN add_one_to_hex_loop(hex_string, i - 1,
                                           <<"0">> \o result, 1)
                  ELSE add_one_to_hex_loop(hex_string, i - 1,
                                           <<HexDigit(index)>> \o result, 0)

\* an add-one that rolls the last digit over and loses the carry
add_one_to_hex_lost_carry(hex_string) ==
    IF hex_string = <<>> THEN hex_string
    ELSE [hex_string EXCEPT
             ![Len(hex_string)] = HexDigit((HexIndex(@) + 1) % 16)]

add_one_to_hex(hex_string) ==
    add_one_to_hex_loop(hex_string, Len(hex_string), <<>>, 1)

\* the width of a negative number's hexadecimal encoding
HexWidth == 10

\* an encoder that adds one to the padded magnitude without inverting it
convert_to_hex_not_inverted(n) ==
    IF IsZero(n) THEN <<"0">>
    ELSE LET hex_string == hex_of(Abs(n), <<>>)
         IN  IF IsNegative(n)
             THEN rjust(add_one_to_hex(rjust(hex_string, HexWidth, "0")),
                        HexWidth, "F")
             ELSE hex_string

convert_to_hex(n) ==
    IF IsZero(n) THEN <<"0">>
    ELSE LET hex_string == hex_of(Abs(n), <<>>)
         IN  IF IsNegative(n)
             THEN LET padded == rjust(hex_string, HexWidth, "0")
                      inverted_hex ==
                          [i \in 1..Len(padded) |->
                              HexDigit(15 - HexIndex(padded[i]))]
                  IN  rjust(add_one_to_hex(inverted_hex), HexWidth, "F")
             ELSE hex_string

-----------------------------------------------------------------------------
(* The loader *)

IsSpace(c) == c \in {" ", "\n", "\t", "\r"}

IsDigit(c) == c \in {"0", "1", "2", "3", "4", "5", "6", "7", "8", "9"}

\* s.strip(): leading and trailing whitespace removed
RECURSIVE strip(_)
strip(s) ==
    IF s = <<>> THEN s
    ELSE IF IsSpace(s[1]) THEN strip(Tail(s))
    ELSE IF IsSpace(s[Len(s)]) THEN strip(SubSeq(s, 1, Len(s) - 1))
    ELSE s

\* the value of a string of decimal digits and underscores, after acc
RECURSIVE decimal_value(_, _)
decimal_value(s, acc) ==
    IF s = <<>> THEN acc
    ELSE IF s[1] = "_" THEN decimal_value(Tail(s), acc)
    ELSE decimal_value(Tail(s), MulAdd(acc, 10, HexIndex(s[1])))

\* int(s) of a string: <<n>>, or <<>> for a ValueError.  Whitespace around,
\* one sign, decimal digits, single underscores between digits.
int(s) ==
    LET t == strip(s)
        signed == t # <<>> /\ t[1] \in {"+", "-"}
        body == IF signed THEN Tail(t) ELSE t
        wellFormed ==
            /\ body # <<>>
            /\ \A i \in 1..Len(body) :
                \/ IsDigit(body[i])
                \/ /\ body[i] = "_"
                   /\ 1 < i /\ i < Len(body)
                   /\ IsDigit(body[i - 1]) /\ IsDigit(body[i + 1])
        v == decimal_value(body, Zero)
    IN  IF ~wellFormed THEN <<>>
        ELSE <<PyInt(t[1] = "-" /\ ~IsZero(v), v.hi, v.lo)>>

\* __validate_input: the number, or <<>> for None
validate_input(line) == int(strip(line))

\* a loop body that tests the number's truth, so that 0 counts as None
load_line_falsy(d, e, i, line) ==
    LET n == validate_input(line)
    IN  IF n # <<>> /\ ~IsZero(n[1])
        THEN [data |-> Append(d, n[1]), line_errors |-> e]
        ELSE [data |-> d, line_errors |-> Append(e, <<i, line>>)]

\* the body of the loop of __load_data on line i (0-based)
load_line(d, e, i, line) ==
    LET n == validate_input(line)
    IN  IF n # <<>>
        THEN [data |-> Append(d, n[1]), line_errors |-> e]
        ELSE [data |-> d, line_errors |-> Append(e, <<i, line>>)]

-----------------------------------------------------------------------------
(* The report *)

\* the decimal digits of n > 0, put in front of s
RECURSIVE decimal_digits(_, _)
decimal_digits(n, s) ==
    IF IsZero(n) THEN s
    ELSE decimal_digits(FloorDiv(n, 10), <<str(Mod(n, 10))>> \o s)

\* f"{n}" of an int
format_int(n) ==
    IF IsZero(n) THEN <<"0">>
    ELSE (IF IsNegative(n) THEN <<"-">> ELSE <<>>) \o decimal_digits(Abs(n), <<>>)

transform_data(d) ==
    [k \in 1..Len(d) |->
        <<d[k], convert_to_binary(d[k], DefaultBits), convert_to_hex(d[k])>>]

\* the stem of the file's name, which the model leaves uninterpreted
header_file_name == "f"

\* a row is the tuple of its tab-separated fields
format_row(i, value) ==
    <<format_int(PyInt(FALSE, 0, i + 1)),
      format_int(value[1]),
      format_int(int(value[2])[1]),
      value[3]>>

format_conversion_for_display(d) ==
    LET conversions == transform_data(d)
    IN  <<<<"NUMBER", header_file_name, "BIN", "HEX">>>> \o
        [k \in 1..Len(conversions) |-> format_row(k - 1, conversions[k])]

-----------------------------------------------------------------------------
(* The inputs *)

\* 2^k
Pow2(k) == IF k < 20 THEN PyInt(FALSE, 0, 2^k) ELSE PyInt(FALSE, 2^(k - 20), 0)

\* n + 1 for n >= 0
Succ(n) ==
    IF n.lo = Limb - 1 THEN PyInt(FALSE, n.hi + 1, 0)
    ELSE PyInt(FALSE, n.hi, n.lo + 1)

\* n - 1 for n > 0
Pred(n) ==
    IF n.lo = 0 THEN PyInt(FALSE, n.hi - 1, Limb - 1)
    ELSE PyInt(FALSE, n.hi, n.lo - 1)

Neg(n) == PyInt(~IsZero(n), n.hi, n.lo)

MagnitudesTo(e) ==
    {PyInt(FALSE, 0, m) : m \in 0..MaxMag}
        \cup {Pow2(k) : k \in 0..e}
        \cup {Pred(Pow2(k)) : k \in 0..e}
        \cup {Succ(Pow2(k)) : k \in 0..e}

Magnitudes == MagnitudesTo(MaxExp)

\* the numbers passed to convert_to_hex
Numbers == Magnitudes \cup {Neg(m) : m \in Magnitudes}

\* the numbers passed to convert_to_binary
BinNumbers ==
    MagnitudesTo(MaxBinExp) \cup {Neg(m) : m \in MagnitudesTo(MaxBinExp)}

Widths == 1..MaxBits

BinStrings == UNION {[1..L -> {"0", "1"}] : L \in 0..MaxBinLen}

HexStrings ==
    UNION {[1..L -> {hex_digits[k] : k \in 1..16}] : L \in 0..MaxHexLen}

\* the lines a file is made of
Lines ==
    { <<"5", "\n">>, <<"-", "5", "\n">>, <<"0", "\n">>,
      <<" ", "1", "2", " ", "\n">>, <<"+", "7", "\n">>,
      <<"a", "b", "c", "\n">>, <<"\n">>, <<"1", "_", "0", "\n">>,
      <<"-", "5", "1", "3", "\n">>, <<"-", "-", "1", "\n">>,
      <<"1", ".", "5", "\n">>, <<"0", "0", "7">>,
      <<"-", "1", "0", "2", "5", "\n">>, <<"_", "1", "\n">> }

Files == UNION {[1..k -> Lines] : k \in 0..MaxLines}

-----------------------------------------------------------------------------
(* The state machine *)

NoCall == number = Zero /\ bits = 0 /\ arg = <<>> /\ out = <<>>

NoMain ==
    /\ exists = FALSE /\ file = <<>> /\ idx = 0
    /\ data = <<>> /\ line_errors = <<>>
    /\ printed = <<>> /\ written = <<>>

Init ==
    \/ /\ op = "convert_to_binary" /\ pc = "call"
       /\ number \in BinNumbers /\ bits \in Widths
       /\ arg = <<>> /\ out = <<>> /\ NoMain
    \/ /\ op = "convert_to_hex" /\ pc = "call"
       /\ number \in Numbers /\ bits = 0
       /\ arg = <<>> /\ out = <<>> /\ NoMain
    \/ /\ op = "binary_add_one" /\ pc = "call"
       /\ arg \in BinStrings
       /\ number = Zero /\ bits = 0 /\ out = <<>> /\ NoMain
    \/ /\ op = "add_one_to_hex" /\ pc = "call"
       /\ arg \in HexStrings
       /\ number = Zero /\ bits = 0 /\ out = <<>> /\ NoMain
    \/ /\ op = "main" /\ pc = "init"
       /\ exists \in BOOLEAN /\ file \in Files
       /\ idx = 0 /\ data = <<>> /\ line_errors = <<>>
       /\ printed = <<>> /\ written = <<>> /\ NoCall

Return(result) ==
    /\ pc = "call"
    /\ out' = result
    /\ pc' = "return"
    /\ UNCHANGED <<op, number, bits, arg>>
    /\ UNCHANGED mainVars

ConvertToBinary ==
    /\ op = "convert_to_binary"
    /\ Return(convert_to_binary(number, bits))

ConvertToHex ==
    /\ op = "convert_to_hex"
    /\ Return(convert_to_hex(number))

BinaryAddOne ==
    /\ op = "binary_add_one"
    /\ Return(binary_add_one(arg))

AddOneToHex ==
    /\ op = "add_one_to_hex"
    /\ Return(add_one_to_hex(arg))

\* __init__ up to __validate_file_exists: FileNotFoundError ends the run
Construct ==
    /\ op = "main" /\ pc = "init"
    /\ pc' = IF exists THEN "load" ELSE "FileNotFoundError"
    /\ UNCHANGED <<op, idx, data, line_errors, printed, written, exists, file>>
    /\ UNCHANGED callVars

\* one turn of the loop of __load_data
LoadLine ==
    /\ op = "main" /\ pc = "load"
    /\ idx < Len(file)
    /\ LET r == load_line(data, line_errors, idx, file[idx + 1])
       IN  /\ data' = r.data
           /\ line_errors' = r.line_errors
    /\ idx' = idx + 1
    /\ UNCHANGED <<op, pc, printed, written, exists, file>>
    /\ UNCHANGED callVars

\* the end of the file: __init__ returns
LoadEnd ==
    /\ op = "main" /\ pc = "load"
    /\ idx = Len(file)
    /\ pc' = "loaded"
    /\ UNCHANGED <<op, idx, data, line_errors, printed, written, exists, file>>
    /\ UNCHANGED callVars

DisplayConversion ==
    /\ op = "main" /\ pc = "loaded"
    /\ printed' = format_conversion_for_display(data)
    /\ pc' = "displayed"
    /\ UNCHANGED <<op, idx, data, line_errors, written, exists, file>>
    /\ UNCHANGED callVars

GenerateFile ==
    /\ op = "main" /\ pc = "displayed"
    /\ written' = format_conversion_for_display(data)
    /\ pc' = "done"
    /\ UNCHANGED <<op, idx, data, line_errors, printed, exists, file>>
    /\ UNCHANGED callVars

Next ==
    \/ ConvertToBinary
    \/ ConvertToHex
    \/ BinaryAddOne
    \/ AddOneToHex
    \/ Construct
    \/ LoadLine
    \/ LoadEnd
    \/ DisplayConversion
    \/ GenerateFile

Spec == Init /\ [][Next]_vars

-----------------------------------------------------------------------------
(* Reading digit strings back, for the properties *)

Less(a, b) == a.hi < b.hi \/ (a.hi = b.hi /\ a.lo < b.lo)

Leq(a, b) == a = b \/ Less(a, b)

\* a - b for a >= b >= 0
Sub(a, b) ==
    IF a.lo >= b.lo THEN PyInt(FALSE, a.hi - b.hi, a.lo - b.lo)
    ELSE PyInt(FALSE, a.hi - b.hi - 1, a.lo + Limb - b.lo)

IsBinary(s) == \A i \in 1..Len(s) : s[i] \in {"0", "1"}

IsHex(s) == \A i \in 1..Len(s) : \E k \in 1..16 : s[i] = hex_digits[k]

\* the value of a short digit string in base b
RECURSIVE Value(_, _)
Value(s, b) ==
    IF s = <<>> THEN 0
    ELSE Value(SubSeq(s, 1, Len(s) - 1), b) * b + HexIndex(s[Len(s)])

\* the unsigned value of a digit string in base 2 or 16, one limb from the
\* last 20 bits and one from the digits before them
Unsigned(s, b) ==
    LET w == IF b = 2 THEN 20 ELSE 5
        cut == Max(0, Len(s) - w)
    IN  PyInt(FALSE, Value(SubSeq(s, 1, cut), b),
                     Value(SubSeq(s, cut + 1, Len(s)), b))

\* the value of a non-empty digit string of Len(s) digits, w bits each, read
\* as a two's-complement number of w * Len(s) bits
TwosComplementValue(s, w) ==
    LET u == Unsigned(s, 2^w)
        half == Pow2(w * Len(s) - 1)
    IN  IF Less(u, half) THEN u ELSE Neg(Sub(Pow2(w * Len(s)), u))

Returned(f) == op = f /\ pc = "return"

-----------------------------------------------------------------------------
(* C1 *)

\* C1 as stated: for a negative n whose magnitude has at most bits binary
\* digits, convert_to_binary(n, bits) has exactly bits characters over {0,1}
\* and reads back, as a bits-wide two's-complement number, as n.
C1_AsStated ==
    (Returned("convert_to_binary") /\ IsNegative(number)
        /\ Less(Abs(number), Pow2(bits)))
    => /\ Len(out) = bits
       /\ IsBinary(out)
       /\ TwosComplementValue(out, 1) = number

\* C1 amended: for a negative n with |n| <= 2^(bits-1), the range of a
\* bits-wide two's-complement number, convert_to_binary(n, bits) has exactly
\* bits characters over {0,1} and reads back as n.
C1_RoundTrip ==
    (Returned("convert_to_binary") /\ IsNegative(number)
        /\ Leq(Abs(number), Pow2(bits - 1)))
    => /\ Len(out) = bits
       /\ IsBinary(out)
       /\ TwosComplementValue(out, 1) = number

\* -2^9 at width 10: the add-one carries through nine digits
C1_Witness ==
    /\ Returned("convert_to_binary")
    /\ number = Neg(Pow2(9)) /\ bits = 10
    /\ out = <<"1", "0", "0", "0", "0", "0", "0", "0", "0", "0">>

(* C2 *)

\* C2: for every negative n and width bits >= 1, convert_to_binary(n, bits)
\* has exactly bits characters, also when |n| has more than bits digits.
C2_ExactWidth ==
    (Returned("convert_to_binary") /\ IsNegative(number))
    => Len(out) = bits

(* C3 *)

C4_UnsignedBinary ==
    (Returned("convert_to_binary") /\ ~IsNegative(number))
    => /\ Len(out) >= 1
       /\ IsBinary(out)
       /\ Len(out) > 1 => out[1] # "0"
       /\ Unsigned(out, 2) = number
       /\ IsZero(number) => out = <<"0">>
       /\ \A w \in Widths : convert_to_binary(number, w) = out

\* 5 at width 2, narrower than its three digits, and 101 all the same
C4_Witness ==
    /\ Returned("convert_to_binary")
    /\ number = PyInt(FALSE, 0, 5) /\ bits = 2
    /\ out = <<"1", "0", "1">>

(* C5 *)

\* C5: for every n >= 0, convert_to_hex(n) is the unsigned hexadecimal
\* numeral of n in uppercase digits (value n, no leading zero, no padding,
\* "0" for zero).
C5_UnsignedHex ==
    (Returned("convert_to_hex") /\ ~IsNegative(number))
    => /\ Len(out) >= 1
       /\ IsHex(out)
       /\ Len(out) > 1 => out[1] # "0"
       /\ Unsigned(out, 16) = number
       /\ IsZero(number) => out = <<"0">>

\* 2^12 - 1 is FFF
C5_Witness ==
    /\ Returned("convert_to_hex")
    /\ number = Pred(Pow2(12))
    /\ out = <<"F", "F", "F">>

(* C6 *)

\* C6: for any width bits >= 1, convert_to_binary(-1, bits) is the string
\* of exactly bits '1' characters.
C6_MinusOne ==
    (Returned("convert_to_binary") /\ number = PyInt(TRUE, 0, 1))
    => out = Fill("1", bits)

C6_Witness ==
    /\ Returned("convert_to_binary")
    /\ number = PyInt(TRUE, 0, 1) /\ bits = 7
    /\ out = <<"1", "1", "1", "1", "1", "1", "1">>

(* C7 *)

\* C7 as stated: convert_to_hex(-255) returns "FFFFFF0100".
C7_AsStated ==
    (Returned("convert_to_hex") /\ number = PyInt(TRUE, 0, 255))
    => out = <<"F", "F", "F", "F", "F", "F", "0", "1", "0", "0">>

\* C7 amended: convert_to_hex(-255) returns the 10-character string
\* "FFFFFFFF01", the two's complement of 255 over 40 bits.
C7_Minus255 ==
    (Returned("convert_to_hex") /\ number = PyInt(TRUE, 0, 255))
    => /\ out = <<"F", "F", "F", "F", "F", "F", "F", "F", "0", "1">>
       /\ TwosComplementValue(out, 4) = number

C7_Witness ==
    /\ Returned("convert_to_hex")
    /\ number = PyInt(TRUE, 0, 255)
    /\ Len(out) = HexWidth

(* C8 *)

\* how many maximal digits s ends with
RECURSIVE TrailingRun(_, _)
TrailingRun(s, b) ==
    IF s = <<>> \/ s[Len(s)] # HexDigit(b - 1) THEN 0
    ELSE 1 + TrailingRun(SubSeq(s, 1, Len(s) - 1), b)

\* s + 1 modulo b^Len(s): the result keeps the length, its value is the
\* next one modulo b^L, the k trailing maximal digits are 0 in it, the digit
\* left of them is one more and the digits further left are unchanged
IsModularIncrement(s, r, b) ==
    LET L == Len(s)
        k == TrailingRun(s, b)
    IN  /\ Len(r) = L
        /\ Value(r, b) = (Value(s, b) + 1) % (b^L)
        /\ \A i \in 1..L :
            r[i] = IF i > L - k THEN "0"
                   ELSE IF i = L - k THEN HexDigit(HexIndex(s[i]) + 1)
                   ELSE s[i]

C9_ReportRows ==
    pc \in {"displayed", "done"}
    => /\ Len(printed) = Len(data) + 1
       /\ printed[1] = <<"NUMBER", header_file_name, "BIN", "HEX">>
       /\ \A i \in 1..Len(data) :
            printed[i + 1] =
                <<format_int(PyInt(FALSE, 0, i)),
                  format_int(data[i]),
                  convert_to_binary(data[i], DefaultBits),
                  convert_to_hex(data[i])>>

(* C10 *)

\* the lines among the first i that parse as integers
Accepted(i) == {j \in 1..i : validate_input(file[j]) # <<>>}

\* C10: once an existing file of k lines is loaded, data holds the integers
\* of the lines that parse, in file order, line_errors holds (index, raw
\* line) of every other line, in file order, the two lists have k entries
\* together, no line is in both, and the report has a row for each accepted
\* line only.
C10_Classified ==
    pc \in {"loaded", "displayed", "done"}
    => LET k == Len(file)
       IN  /\ Len(data) = Cardinality(Accepted(k))
           /\ Len(data) + Len(line_errors) = k
           /\ \A i \in 1..k :
                LET a == Cardinality(Accepted(i))
                IN  IF i \in Accepted(k)
                    THEN data[a] = validate_input(file[i])[1]
                    ELSE line_errors[i - a] = <<i - 1, file[i]>>
           /\ pc # "loaded" => Len(printed) = Len(data) + 1

\* a file of one line that parses, as zero, and one that does not
C10_Witness ==
    /\ pc = "done"
    /\ file = << <<"a", "b", "c", "\n">>, <<"0", "\n">> >>
    /\ data = <<Zero>>
    /\ line_errors = << <<0, <<"a", "b", "c", "\n">> >> >>


(* C11 *)

\* the number of binary digits of m > 0: the least k with m < 2^k
BitLength(m) ==
    CHOOSE k \in 1..(MaxExp + 3) : Less(m, Pow2(k)) /\ ~Less(m, Pow2(k - 1))

\* the string convert_to_binary hands to __twos_complement for a negative n
PaddedMagnitude(n, width) == zfill(Reverse(binary_digits(Abs(n))), width)

\* the string __twos_complement hands to __binary_add_one
Inverted(binary) ==
    [i \in 1..Len(binary) |-> IF binary[i] = "0" THEN "1" ELSE "0"]

====
